---- MODULE Spec2Model ----
(***************************************************************************)
(* indexedRAG: a desktop chat shell that keeps one conversation and one    *)
(* settings record in a local SQLite file (src/src/main.rs).               *)
(*                                                                         *)
(* A Rust String is modelled as a sequence of one-character strings, so    *)
(* that JSON encoding, JSON decoding, integer formatting and integer       *)
(* parsing are computed character by character.                            *)
(***************************************************************************)
EXTENDS Integers, Sequences, FiniteSets, TLC

\* ------------------------------------------------------------------ bounds

\* Send clicks accepted over the life of the database file.
MaxSends == 2
\* Longest root_paths list the settings form is driven to.
MaxPaths == 1

\* ------------------------------------------------------------- text values

QUOTE == "\""
BSLASH == "\\"

WelcomeText ==
    <<"W", "e", "l", "c", "o", "m", "e", " ", "t", "o", " ", "I", "n", "d",
      "e", "x", "e", "d", "r", "a", "g", "!">>
DefaultPath ==
    <<"/", "p", "a", "t", "h", "/", "t", "o", "/", "s", "o", "m", "e", "w",
      "h", "e", "r", "e">>
StubPrefix ==
    <<"(", "S", "t", "u", "b", ")", " ", "L", "L", "M", " ", "R", "e", "s",
      "p", "o", "n", "s", "e", " ", "t", "o", ":", " ", "'">>
RoleSystem == <<"s", "y", "s", "t", "e", "m">>
RoleUser == <<"u", "s", "e", "r">>
RoleAssistant == <<"a", "s", "s", "i", "s", "t", "a", "n", "t">>
KeyRole == <<"r", "o", "l", "e">>
KeyContent == <<"c", "o", "n", "t", "e", "n", "t">>

\* Texts typed into the message field: the empty text and one that holds
\* every character JSON has to escape, and the quote of the stub reply.
SpecialInput == <<"h", "'", QUOTE, BSLASH, "\n">>
InputTexts == { <<>>, SpecialInput }
\* Texts typed into a root path field.
SpecialPath == <<"c", ":", BSLASH, QUOTE, "d", ",", "]">>
PathTexts == { SpecialPath }
\* Texts the interval field can hold when it loses focus.
IntervalTexts ==
    { <<>>,
      <<"a", "b", "c">>,
      <<"-">>,
      <<"+">>,
      <<" ", "6", "0">>,
      <<"1", ".", "5">>,
      <<"6", "0">>,
      <<"+", "0", "0", "6", "0">>,
      <<"-", "2", "1", "4", "7", "4", "8", "3", "6", "4", "8">>,
      <<"-", "2", "1", "4", "7", "4", "8", "3", "6", "4", "9">>,
      <<"2", "1", "4", "7", "4", "8", "3", "6", "4", "8">> }

\* ------------------------------------------------------------ i32 and text

I32_MAX == 2147483647
I32_MIN == -I32_MAX - 1

Digits == <<"0", "1", "2", "3", "4", "5", "6", "7", "8", "9">>
IsDigit(c) == \E d \in 1..10 : Digits[d] = c
DigitVal(c) == (CHOOSE d \in 1..10 : Digits[d] = c) - 1

RECURSIVE NatToString(_)
NatToString(n) ==
    IF n < 10 THEN <<Digits[n + 1]>>
    ELSE Append(NatToString(n \div 10), Digits[(n % 10) + 1])

\* The digits of a negative n, taken from n itself: -I32_MIN is no i32.
RECURSIVE NegToString(_)
NegToString(n) ==
    IF n > -10 THEN <<Digits[1 - n]>>
    ELSE LET q == (n + 9) \div 10
         IN  Append(NegToString(q), Digits[1 - (n - q * 10)])

\* i32::to_string
i32_to_string(n) == IF n < 0 THEN <<"-">> \o NegToString(n) ELSE NatToString(n)

\* The digits of s from position i on, accumulated into acc: checked_mul by
\* ten, then checked_add of the digit, or checked_sub after a minus sign;
\* either one overflowing is an error.
RECURSIVE ParseDigits(_, _, _, _)
ParseDigits(s, i, neg, acc) ==
    IF i > Len(s) THEN [ok |-> TRUE, val |-> acc]
    ELSE IF ~IsDigit(s[i]) THEN [ok |-> FALSE, val |-> 0]
    ELSE LET d == DigitVal(s[i])
         IN  IF neg
             THEN IF acc < (I32_MIN + 9) \div 10 THEN [ok |-> FALSE, val |-> 0]
                  ELSE IF acc * 10 < I32_MIN + d THEN [ok |-> FALSE, val |-> 0]
                  ELSE ParseDigits(s, i + 1, neg, acc * 10 - d)
             ELSE IF acc > I32_MAX \div 10 THEN [ok |-> FALSE, val |-> 0]
                  ELSE IF acc * 10 > I32_MAX - d THEN [ok |-> FALSE, val |-> 0]
                  ELSE ParseDigits(s, i + 1, neg, acc * 10 + d)

\* parse_i32 with a slip: a leading plus sign is not accepted.
parse_i32_no_plus(s) ==
    IF Len(s) = 0 THEN [ok |-> FALSE, val |-> 0]
    ELSE IF s[1] = "-"
         THEN IF Len(s) = 1 THEN [ok |-> FALSE, val |-> 0]
              ELSE ParseDigits(s, 2, TRUE, 0)
         ELSE ParseDigits(s, 1, FALSE, 0)

\* str::parse::<i32>: an optional sign, then one or more decimal digits, no
\* blanks, the value within the 32-bit range.
parse_i32(s) ==
    IF Len(s) = 0 THEN [ok |-> FALSE, val |-> 0]
    ELSE IF s[1] \in {"+", "-"}
         THEN IF Len(s) = 1 THEN [ok |-> FALSE, val |-> 0]
              ELSE ParseDigits(s, 2, s[1] = "-", 0)
         ELSE ParseDigits(s, 1, FALSE, 0)

\* ------------------------------------------------------------ JSON writing

\* serde_json's escape table, restricted to the characters of the model.
Escape(c) ==
    CASE c = QUOTE -> <<BSLASH, QUOTE>>
      [] c = BSLASH -> <<BSLASH, BSLASH>>
      [] c = "\n" -> <<BSLASH, "n">>
      [] c = "\t" -> <<BSLASH, "t">>
      [] c = "\r" -> <<BSLASH, "r">>
      [] c = "\f" -> <<BSLASH, "f">>
      [] OTHER -> <<c>>

RECURSIVE EscapeAll(_, _)
EscapeAll(s, i) == IF i > Len(s) THEN <<>> ELSE Escape(s[i]) \o EscapeAll(s, i + 1)

JsonString(s) == <<QUOTE>> \o EscapeAll(s, 1) \o <<QUOTE>>

JsonMessage(m) ==
    <<"{">> \o JsonString(KeyRole) \o <<":">> \o JsonString(m.role) \o <<",">>
        \o JsonString(KeyContent) \o <<":">> \o JsonString(m.content) \o <<"}">>

RECURSIVE JoinPaths(_, _)
JoinPaths(v, i) ==
    IF i > Len(v) THEN <<>>
    ELSE (IF i > 1 THEN <<",">> ELSE <<>>) \o JsonString(v[i]) \o JoinPaths(v, i + 1)

RECURSIVE JoinMessages(_, _)
JoinMessages(v, i) ==
    IF i > Len(v) THEN <<>>
    ELSE (IF i > 1 THEN <<",">> ELSE <<>>) \o JsonMessage(v[i]) \o JoinMessages(v, i + 1)

\* serde_json::to_string(&Vec<String>)
to_string_paths(v) == <<"[">> \o JoinPaths(v, 1) \o <<"]">>

\* serde_json::to_string(&Vec<Message>)
to_string_messages(v) == <<"[">> \o JoinMessages(v, 1) \o <<"]">>

\* ------------------------------------------------------------ JSON reading
\* serde_json::from_str for Vec<String> and Vec<Message>: blanks between
\* tokens are skipped, a struct is read from an object whose known keys may
\* come in either order, a repeated or a missing key is an error, and so is
\* anything after the closing bracket.  Not modelled, and absent from the
\* stored texts of the model: \b, \/ and \u escapes, unknown keys, and a
\* struct written as an array.

Fail == [ok |-> FALSE, val |-> <<>>, next |-> 0]

At(s, i) == IF i >= 1 /\ i <= Len(s) THEN s[i] ELSE ""

RECURSIVE SkipWs(_, _)
SkipWs(s, i) == IF At(s, i) \in {" ", "\n", "\t", "\r"} THEN SkipWs(s, i + 1) ELSE i

Unescape(c) ==
    CASE c = QUOTE -> <<QUOTE>>
      [] c = BSLASH -> <<BSLASH>>
      [] c = "n" -> <<"\n">>
      [] c = "t" -> <<"\t">>
      [] c = "r" -> <<"\r">>
      [] c = "f" -> <<"\f">>
      [] OTHER -> <<>>

\* The characters of a string up to its closing quote.
RECURSIVE ScanString(_, _, _)
ScanString(s, i, acc) ==
    LET c == At(s, i) IN
    IF c = "" \/ c \in {"\n", "\t", "\r", "\f"} THEN Fail
    ELSE IF c = QUOTE THEN [ok |-> TRUE, val |-> acc, next |-> i + 1]
    ELSE IF c = BSLASH
         THEN IF Unescape(At(s, i + 1)) = <<>> THEN Fail
              ELSE ScanString(s, i + 2, acc \o Unescape(At(s, i + 1)))
         ELSE ScanString(s, i + 1, Append(acc, c))

ParseJsonString(s, i) == IF At(s, i) = QUOTE THEN ScanString(s, i + 1, <<>>) ELSE Fail

NoFields == [hasRole |-> FALSE, role |-> <<>>, hasContent |-> FALSE, content |-> <<>>]

HasField(f, key) == IF key = KeyRole THEN f.hasRole ELSE f.hasContent

SetField(f, key, val) ==
    IF key = KeyRole THEN [f EXCEPT !.hasRole = TRUE, !.role = val]
    ELSE [f EXCEPT !.hasContent = TRUE, !.content = val]

\* The key/value pairs of a Message object from position i on: a key, a
\* colon, a string value, then a comma and the next pair or the closing
\* brace.  f holds the fields read so far.
RECURSIVE ParsePairs(_, _, _)

PairEnd(s, f, e) ==
    IF At(s, e) = "," THEN ParsePairs(s, SkipWs(s, e + 1), f)
    ELSE IF At(s, e) = "}" /\ f.hasRole /\ f.hasContent
         THEN [ok |-> TRUE, val |-> [role |-> f.role, content |-> f.content],
               next |-> e + 1]
    ELSE Fail

PairValue(s, f, key, v) ==
    IF ~v.ok THEN Fail ELSE PairEnd(s, SetField(f, key, v.val), SkipWs(s, v.next))

PairColon(s, f, key, c) ==
    IF At(s, c) # ":" THEN Fail
    ELSE PairValue(s, f, key, ParseJsonString(s, SkipWs(s, c + 1)))

PairKey(s, f, k) ==
    IF ~k.ok THEN Fail
    ELSE IF k.val \notin {KeyRole, KeyContent} THEN Fail
    ELSE IF HasField(f, k.val) THEN Fail
    ELSE PairColon(s, f, k.val, SkipWs(s, k.next))

ParsePairs(s, i, f) == PairKey(s, f, ParseJsonString(s, i))

ParseMessage(s, i) ==
    IF At(s, i) # "{" THEN Fail ELSE ParsePairs(s, SkipWs(s, i + 1), NoFields)

ParseElement(kind, s, i) ==
    IF kind = "message" THEN ParseMessage(s, i) ELSE ParseJsonString(s, i)

\* The elements of an array from position i on, up to the end of the text:
\* an element, then a comma and the next element or the closing bracket.
RECURSIVE ParseElements(_, _, _, _)

ElementNext(kind, s, acc, j) ==
    IF At(s, j) = "," THEN ParseElements(kind, s, SkipWs(s, j + 1), acc)
    ELSE IF At(s, j) = "]" /\ SkipWs(s, j + 1) > Len(s)
         THEN [ok |-> TRUE, val |-> acc, next |-> Len(s) + 1]
    ELSE Fail

ElementEnd(kind, s, acc, r) ==
    IF ~r.ok THEN Fail ELSE ElementNext(kind, s, Append(acc, r.val), SkipWs(s, r.next))

ParseElements(kind, s, i, acc) == ElementEnd(kind, s, acc, ParseElement(kind, s, i))

ArrayFirst(kind, s, j) ==
    IF At(s, j) = "]"
    THEN IF SkipWs(s, j + 1) > Len(s)
         THEN [ok |-> TRUE, val |-> <<>>, next |-> Len(s) + 1]
         ELSE Fail
    ELSE ParseElements(kind, s, j, <<>>)

ArrayOpen(kind, s, i) ==
    IF At(s, i) # "[" THEN Fail ELSE ArrayFirst(kind, s, SkipWs(s, i + 1))

ParseArray(kind, s) == ArrayOpen(kind, s, SkipWs(s, 1))

\* serde_json::from_str::<Vec<String>>
from_str_paths(s) == ParseArray("string", s)

\* serde_json::from_str::<Vec<Message>>
from_str_messages(s) == ParseArray("message", s)

\* ----------------------------------------------------------------- records

Message(role, content) == [role |-> role, content |-> content]

DefaultConversation ==
    [id |-> 1, messages |-> <<Message(RoleSystem, WelcomeText)>>]

DefaultSettings ==
    [id |-> 1, root_paths |-> <<DefaultPath>>, index_interval_minutes |-> 60]

\* The fields of a process that is not running hold these.
NoConversation == [id |-> 0, messages |-> <<>>]
NoSettings == [id |-> 0, root_paths |-> <<>>, index_interval_minutes |-> 0]

\* ---------------------------------------------------------------- database
\* The database file: the tables created so far and the rows of each, in
\* rowid order (id is the INTEGER PRIMARY KEY, so the rowid).  A statement
\* either runs or fails as a whole; `fault` names the statement made to
\* fail, "none" for a run without an error.

EmptyDb == [tables |-> {}, conversation |-> <<>>, settings |-> <<>>]

ConversationRow(c) == [id |-> c.id, messages |-> to_string_messages(c.messages)]

SettingsRow(st) ==
    [id |-> st.id, root_paths |-> to_string_paths(st.root_paths),
     index_interval_minutes |-> st.index_interval_minutes]

\* CREATE TABLE IF NOT EXISTS settings, then conversation.
initialize_db(d, fault) ==
    LET d1 == [d EXCEPT !.tables = @ \cup {"settings"}]
        d2 == [d1 EXCEPT !.tables = @ \cup {"conversation"}]
    IN  IF fault = "create_settings" THEN [ok |-> FALSE, db |-> d]
        ELSE IF fault = "create_conversation" THEN [ok |-> FALSE, db |-> d1]
        ELSE [ok |-> TRUE, db |-> d2]

\* unwrap_or_else(|_| vec![]): the parsed list, or the empty list.
unwrap_or_empty(r) == IF r.ok THEN r.val ELSE <<>>

\* load_or_create_default_conversation with a slip: the default is returned
\* whatever the stored row holds.
load_conversation_ignoring_row(d, fault) ==
    IF "conversation" \notin d.tables \/ fault = "select_conversation"
    THEN [ok |-> FALSE, db |-> d, val |-> NoConversation]
    ELSE IF Len(d.conversation) > 0
    THEN [ok |-> TRUE, db |-> d, val |-> DefaultConversation]
    ELSE IF fault = "insert_conversation"
    THEN [ok |-> FALSE, db |-> d, val |-> NoConversation]
    ELSE [ok |-> TRUE,
          db |-> [d EXCEPT !.conversation = <<ConversationRow(DefaultConversation)>>],
          val |-> DefaultConversation]

\* SELECT ... LIMIT 1: the stored row decoded, a text that does not parse
\* read as the empty list; with no row, the default inserted and returned.
load_or_create_default_conversation(d, fault) ==
    IF "conversation" \notin d.tables \/ fault = "select_conversation"
    THEN [ok |-> FALSE, db |-> d, val |-> NoConversation]
    ELSE IF Len(d.conversation) > 0
    THEN [ok |-> TRUE, db |-> d,
          val |-> [id |-> d.conversation[1].id,
                   messages |-> unwrap_or_empty(
                                    from_str_messages(d.conversation[1].messages))]]
    ELSE IF fault = "insert_conversation"
    THEN [ok |-> FALSE, db |-> d, val |-> NoConversation]
    ELSE [ok |-> TRUE,
          db |-> [d EXCEPT !.conversation = <<ConversationRow(DefaultConversation)>>],
          val |-> DefaultConversation]

\* load_or_create_default_settings with a slip: the default row is inserted
\* without a look at the rows the table holds.
load_settings_always_inserting(d, fault) ==
    IF "settings" \notin d.tables \/ fault \in {"select_settings", "insert_settings"}
    THEN [ok |-> FALSE, db |-> d, val |-> NoSettings]
    ELSE [ok |-> TRUE,
          db |-> [d EXCEPT !.settings =
                    Append(@, [SettingsRow(DefaultSettings) EXCEPT !.id = Len(d.settings) + 1])],
          val |-> [DefaultSettings EXCEPT !.id = Len(d.settings) + 1]]

load_or_create_default_settings(d, fault) ==
    IF "settings" \notin d.tables \/ fault = "select_settings"
    THEN [ok |-> FALSE, db |-> d, val |-> NoSettings]
    ELSE IF Len(d.settings) > 0
    THEN [ok |-> TRUE, db |-> d,
          val |-> [id |-> d.settings[1].id,
                   root_paths |-> unwrap_or_empty(from_str_paths(d.settings[1].root_paths)),
                   index_interval_minutes |-> d.settings[1].index_interval_minutes]]
    ELSE IF fault = "insert_settings"
    THEN [ok |-> FALSE, db |-> d, val |-> NoSettings]
    ELSE [ok |-> TRUE,
          db |-> [d EXCEPT !.settings = <<SettingsRow(DefaultSettings)>>],
          val |-> DefaultSettings]

UpdateMessages(rows, id, text) ==
    [i \in DOMAIN rows |->
        IF rows[i].id = id THEN [rows[i] EXCEPT !.messages = text] ELSE rows[i]]

UpdateSettings(rows, id, text, minutes) ==
    [i \in DOMAIN rows |->
        IF rows[i].id = id
        THEN [rows[i] EXCEPT !.root_paths = text, !.index_interval_minutes = minutes]
        ELSE rows[i]]

\* save_conversation with a slip: the two parameters bound in the wrong
\* order, so that the WHERE clause matches no row.
save_conversation_no_row(d, c, fault) ==
    IF fault = "update_conversation" THEN [ok |-> FALSE, db |-> d]
    ELSE [ok |-> TRUE, db |-> d]

\* UPDATE conversation SET messages = ?1 WHERE id = ?2
save_conversation(d, c, fault) ==
    IF fault = "update_conversation" THEN [ok |-> FALSE, db |-> d]
    ELSE [ok |-> TRUE,
          db |-> [d EXCEPT !.conversation =
                    UpdateMessages(@, c.id, to_string_messages(c.messages))]]

\* UPDATE settings SET root_paths = ?1, index_interval_minutes = ?2 WHERE id = ?3
save_settings(d, st, fault) ==
    IF fault = "update_settings" THEN [ok |-> FALSE, db |-> d]
    ELSE [ok |-> TRUE,
          db |-> [d EXCEPT !.settings =
                    UpdateSettings(@, st.id, to_string_paths(st.root_paths),
                                   st.index_interval_minutes)]]

\* What new leaves when an expect panics with the file as db.
Panicked(db) ==
    [ok |-> FALSE, db |-> db, conversation |-> NoConversation, settings |-> NoSettings]

NewSettings(c, st) ==
    IF ~st.ok THEN Panicked(st.db)
    ELSE [ok |-> TRUE, db |-> st.db, conversation |-> c.val, settings |-> st.val]

NewConversation(c, fault) ==
    IF ~c.ok THEN Panicked(c.db)
    ELSE NewSettings(c, load_or_create_default_settings(c.db, fault))

NewTables(i, fault) ==
    IF ~i.ok THEN Panicked(i.db)
    ELSE NewConversation(load_or_create_default_conversation(i.db, fault), fault)

\* IndexedragApp::new: open the file, create the tables, load both records.
new(d, fault) ==
    IF fault = "open" THEN Panicked(d) ELSE NewTables(initialize_db(d, fault), fault)

\* call_llm_api_stub with a slip: the closing quote of the reply is missing.
call_llm_api_stub_unclosed(c, user_input) ==
    [c EXCEPT !.messages = Append(@, Message(RoleAssistant, StubPrefix \o user_input))]

\* call_llm_api_stub: the conversation with the stub reply pushed.
call_llm_api_stub(c, user_input) ==
    [c EXCEPT !.messages =
        Append(@, Message(RoleAssistant, StubPrefix \o user_input \o <<"'">>))]

\* -------------------------------------------------------------------- state

VARIABLES
    status,          \* "off", "running" or "aborted" (a panic of expect)
    db,              \* the database file
    conversation,    \* IndexedragApp.conversation
    current_input,   \* IndexedragApp.current_input
    settings_open,   \* IndexedragApp.settings_open
    settings,        \* IndexedragApp.settings
    event,           \* the event handled last: its name and the fault injected
    last_saved       \* the settings the last INSERT or UPDATE of this program wrote

vars ==
    <<status, db, conversation, current_input, settings_open, settings, event,
      last_saved>>

Event(op, fault) == [op |-> op, fault |-> fault]

StartFaults ==
    {"none", "open", "create_settings", "create_conversation",
     "select_conversation", "insert_conversation", "select_settings",
     "insert_settings"}

\* The process is gone: a panic, or the window closed.
Gone(st) ==
    /\ status' = st
    /\ conversation' = NoConversation
    /\ current_input' = <<>>
    /\ settings_open' = FALSE
    /\ settings' = NoSettings

Init ==
    /\ status = "off"
    /\ db = EmptyDb
    /\ conversation = NoConversation
    /\ current_input = <<>>
    /\ settings_open = FALSE
    /\ settings = NoSettings
    /\ event = Event("none", "none")
    /\ last_saved = NoSettings

\* The process after new returned r, or panicked.
Started(r, fault) ==
    /\ db' = r.db
    /\ event' = Event("Start", IF r.ok THEN "none" ELSE fault)
    /\ last_saved' = IF Len(r.db.settings) > Len(db.settings) THEN DefaultSettings
                      ELSE last_saved
    /\ IF r.ok
       THEN /\ status' = "running"
            /\ conversation' = r.conversation
            /\ current_input' = <<>>
            /\ settings_open' = FALSE
            /\ settings' = r.settings
       ELSE Gone("aborted")

\* main: the process starts, for the first time or again.
Start(fault) ==
    /\ status \in {"off", "aborted"}
    /\ Started(new(db, fault), fault)

\* The window is closed and run_native returns.
Exit ==
    /\ status = "running"
    /\ Gone("off")
    /\ event' = Event("Exit", "none")
    /\ UNCHANGED <<db, last_saved>>

\* The message field is edited.
TypeInput(t) ==
    /\ status = "running"
    /\ current_input' = t
    /\ event' = Event("TypeInput", "none")
    /\ UNCHANGED <<status, db, conversation, settings_open, settings, last_saved>>

\* Pushed with a slip: the list is started afresh with the two new messages.
PushedAfresh(c, input) ==
    call_llm_api_stub([c EXCEPT !.messages = <<Message(RoleUser, input)>>], input)

\* The conversation after the user message and the stub reply are pushed.
Pushed(c, input) ==
    call_llm_api_stub([c EXCEPT !.messages = Append(@, Message(RoleUser, input))], input)

\* Sent with a slip: the call of save_conversation is missing.
SentUnsaved(c, r, fault) ==
    /\ conversation' = c
    /\ current_input' = <<>>
    /\ event' = Event("Send", "none")
    /\ UNCHANGED <<status, db, settings_open, settings, last_saved>>

\* The process after save_conversation returned r for the conversation c.
Sent(c, r, fault) ==
    /\ db' = r.db
    /\ event' = Event("Send", IF r.ok THEN "none" ELSE fault)
    /\ UNCHANGED last_saved
    /\ IF r.ok
       THEN /\ conversation' = c
            /\ current_input' = <<>>
            /\ UNCHANGED <<status, settings_open, settings>>
       ELSE Gone("aborted")

\* The Send button.
Send(fault) ==
    /\ status = "running"
    /\ Len(conversation.messages) < 1 + 2 * MaxSends
    /\ Sent(Pushed(conversation, current_input),
            save_conversation(db, Pushed(conversation, current_input), fault), fault)

\* ToggleSettings with a slip: closing the window with the toggle reloads the
\* settings, as Cancel does.
ToggleSettingsReloading ==
    /\ status = "running"
    /\ settings_open' = ~settings_open
    /\ settings' = IF settings_open
                   THEN load_or_create_default_settings(db, "none").val
                   ELSE settings
    /\ event' = Event("ToggleSettings", "none")
    /\ UNCHANGED <<status, db, conversation, current_input, last_saved>>

\* The Settings button of the menu bar.
ToggleSettings ==
    /\ status = "running"
    /\ settings_open' = ~settings_open
    /\ event' = Event("ToggleSettings", "none")
    /\ UNCHANGED <<status, db, conversation, current_input, settings, last_saved>>

\* A root path field of the settings window is edited.
EditPath(i, t) ==
    /\ status = "running" /\ settings_open
    /\ i \in DOMAIN settings.root_paths
    /\ settings' = [settings EXCEPT !.root_paths[i] = t]
    /\ event' = Event("EditPath", "none")
    /\ UNCHANGED <<status, db, conversation, current_input, settings_open, last_saved>>

RemoveAt(v, i) == [k \in 1..(Len(v) - 1) |-> IF k < i THEN v[k] ELSE v[k + 1]]

\* The Remove button of the i-th root path.
RemovePath(i) ==
    /\ status = "running" /\ settings_open
    /\ i \in DOMAIN settings.root_paths
    /\ settings' = [settings EXCEPT !.root_paths = RemoveAt(@, i)]
    /\ event' = Event("RemovePath", "none")
    /\ UNCHANGED <<status, db, conversation, current_input, settings_open, last_saved>>

\* The Add Another Path button.
AddPath ==
    /\ status = "running" /\ settings_open
    /\ Len(settings.root_paths) < MaxPaths
    /\ settings' = [settings EXCEPT !.root_paths = Append(@, <<>>)]
    /\ event' = Event("AddPath", "none")
    /\ UNCHANGED <<status, db, conversation, current_input, settings_open, last_saved>>

\* The settings after the interval text parsed to r: committed if it parsed.
Committed(st, r) == IF r.ok THEN [st EXCEPT !.index_interval_minutes = r.val] ELSE st

\* The interval field loses focus holding the text s.
IntervalLostFocus(s) ==
    /\ status = "running" /\ settings_open
    /\ settings' = Committed(settings, parse_i32(s))
    /\ event' = Event("IntervalLostFocus", "none")
    /\ UNCHANGED <<status, db, conversation, current_input, settings_open, last_saved>>

\* Saved with a slip: the result of execute is dropped instead of expected.
SavedUnchecked(r, fault) ==
    /\ db' = r.db
    /\ event' = Event("SaveSettings", IF r.ok THEN "none" ELSE fault)
    /\ last_saved' = IF r.ok THEN settings ELSE last_saved
    /\ settings_open' = FALSE
    /\ UNCHANGED <<status, conversation, current_input, settings>>

\* The process after save_settings returned r.
Saved(r, fault) ==
    /\ db' = r.db
    /\ event' = Event("SaveSettings", IF r.ok THEN "none" ELSE fault)
    /\ last_saved' = IF r.ok THEN settings ELSE last_saved
    /\ IF r.ok
       THEN /\ settings_open' = FALSE
            /\ UNCHANGED <<status, conversation, current_input, settings>>
       ELSE Gone("aborted")

\* The Save Settings button.
SaveSettings(fault) ==
    /\ status = "running" /\ settings_open
    /\ Saved(save_settings(db, settings, fault), fault)

\* Cancelled with a slip: the window is closed and the edits stay in memory.
CancelledKeepingEdits(r, fault) ==
    /\ event' = Event("Cancel", "none")
    /\ settings_open' = FALSE
    /\ UNCHANGED <<status, db, conversation, current_input, settings, last_saved>>

\* The process after load_or_create_default_settings returned r.
Cancelled(r, fault) ==
    /\ db' = r.db
    /\ event' = Event("Cancel", IF r.ok THEN "none" ELSE fault)
    /\ last_saved' = IF Len(r.db.settings) > Len(db.settings) THEN DefaultSettings
                      ELSE last_saved
    /\ IF r.ok
       THEN /\ settings' = r.val
            /\ settings_open' = FALSE
            /\ UNCHANGED <<status, conversation, current_input>>
       ELSE Gone("aborted")

\* The Cancel button.
Cancel(fault) ==
    /\ status = "running" /\ settings_open
    /\ Cancelled(load_or_create_default_settings(db, fault), fault)

Next ==
    \/ \E f \in StartFaults : Start(f)
    \/ Exit
    \/ \E t \in InputTexts : TypeInput(t)
    \/ \E f \in {"none", "update_conversation"} : Send(f)
    \/ ToggleSettings
    \/ \E i \in 1..MaxPaths, t \in PathTexts : EditPath(i, t)
    \/ \E i \in 1..MaxPaths : RemovePath(i)
    \/ AddPath
    \/ \E s \in IntervalTexts \cup {i32_to_string(settings.index_interval_minutes)} :
            IntervalLostFocus(s)
    \/ \E f \in {"none", "update_settings"} : SaveSettings(f)
    \/ \E f \in {"none", "select_settings", "insert_settings"} : Cancel(f)

Spec == Init /\ [][Next]_vars

\* ------------------------------------------------- a database file found
\* The file is an external interface: the process may start on a file it
\* did not write in this run.  Texts such a file can hold in the JSON columns:

TextOops == <<"o", "o", "p", "s">>
TextNumbers == <<"[", "1", "]">>
TextNoContent ==
    <<"[", "{", QUOTE, "r", "o", "l", "e", QUOTE, ":", QUOTE, "u", "s", "e", "r",
      QUOTE, "}", "]">>
TextSpaced == <<" ", "[", " ", QUOTE, QUOTE, " ", "]", "\n">>

FoundDb(messages, root_paths) ==
    [tables |-> {"settings", "conversation"},
     conversation |-> <<[id |-> 1, messages |-> messages]>>,
     settings |-> <<[id |-> 1, root_paths |-> root_paths, index_interval_minutes |-> 60]>>]

FoundFiles ==
    { EmptyDb,
      FoundDb(TextOops, to_string_paths(<<DefaultPath>>)),
      FoundDb(TextNoContent, TextSpaced),
      FoundDb(to_string_messages(DefaultConversation.messages), TextNumbers) }

InitFile ==
    /\ status = "off"
    /\ db \in FoundFiles
    /\ conversation = NoConversation
    /\ current_input = <<>>
    /\ settings_open = FALSE
    /\ settings = NoSettings
    /\ event = Event("none", "none")
    /\ last_saved = NoSettings

SpecFile == InitFile /\ [][Next]_vars

\* ------------------------------------------------------------------- claims

Running == status = "running"

\* The event handled last was op, and it met no error.
Handled(op) == event.op = op /\ event.fault = "none"
\* This step handles op without an error.
Handles(op) == event'.op = op /\ event'.fault = "none"

IsPrefix(a, b) == Len(a) <= Len(b) /\ SubSeq(b, 1, Len(a)) = a

\* The JSON texts of the two default lists, written out.
DefaultMessagesText ==
    <<"[", "{", QUOTE, "r", "o", "l", "e", QUOTE, ":", QUOTE, "s", "y", "s",
      "t", "e", "m", QUOTE, ",", QUOTE, "c", "o", "n", "t", "e", "n", "t",
      QUOTE, ":", QUOTE, "W", "e", "l", "c", "o", "m", "e", " ", "t", "o",
      " ", "I", "n", "d", "e", "x", "e", "d", "r", "a", "g", "!", QUOTE, "}",
      "]">>
DefaultPathsText ==
    <<"[", QUOTE, "/", "p", "a", "t", "h", "/", "t", "o", "/", "s", "o", "m",
      "e", "w", "h", "e", "r", "e", QUOTE, "]">>

\* The load r succeeded and returned the record rec.
Reloads(r, rec) == r.ok /\ r.val = rec

C2_Rows ==
    /\ Len(db.conversation) <= 1
    /\ Len(db.settings) <= 1
    /\ \A i \in DOMAIN db.conversation : db.conversation[i].id = 1
    /\ \A i \in DOMAIN db.settings : db.settings[i].id = 1
    /\ Running =>
          /\ Len(db.conversation) = 1
          /\ Len(db.settings) = 1
          /\ conversation.id = db.conversation[1].id
          /\ settings.id = db.settings[1].id

\* C2: from an empty database, after any sequence of events and restarts,
\* each table holds at most one row and, once the application runs, exactly
\* one; the id of each row is 1; a row once inserted stays; and the ids in
\* memory are the ids of the stored rows.
C2_SingletonRows ==
    [][ /\ C2_Rows'
        /\ Len(db'.conversation) >= Len(db.conversation)
        /\ Len(db'.settings) >= Len(db.settings) ]_vars

\* The application restarted on rows that a Send and a Save Settings rewrote.
C2_Witness ==
    /\ Handled("Start") /\ Running
    /\ Len(conversation.messages) = 3
    /\ settings.root_paths = <<>>

\* The texts of the found files that are no JSON for their column's type.
InvalidMessagesTexts == {TextOops, TextNoContent}
InvalidPathsTexts == {TextNumbers}

\* This step starts the process on a stored messages text that does not
\* decode, and every database call succeeds.
LoadsInvalidMessages ==
    /\ event'.op = "Start" /\ event'.fault = "none"
    /\ Len(db.conversation) > 0
    /\ db.conversation[1].messages \in InvalidMessagesTexts

LoadsInvalidPaths ==
    /\ event'.op \in {"Start", "Cancel"} /\ event'.fault = "none"
    /\ Len(db.settings) > 0
    /\ db.settings[1].root_paths \in InvalidPathsTexts

\* C3 as stated: every database error and every deserialization error,
\* a stored text that is no JSON for its type included, aborts the process.
C3_EveryErrorAborts ==
    [][ /\ event'.fault # "none" => status' = "aborted"
        /\ LoadsInvalidMessages => status' = "aborted"
        /\ LoadsInvalidPaths => status' = "aborted" ]_vars

\* C3 amended: every database error in bootstrap, load and save aborts the
\* process and leaves no record in memory; a stored messages or root_paths
\* text that is no JSON for its type does not abort: it is read as the empty
\* list, the process goes on running, and the stored text is left as it is.
C3_DbErrorsAbort ==
    [][ /\ event'.fault # "none" =>
              /\ status' = "aborted"
              /\ conversation' = NoConversation /\ settings' = NoSettings
        /\ LoadsInvalidMessages =>
              /\ status' = "running"
              /\ conversation'.messages = <<>>
              /\ db'.conversation = db.conversation
        /\ LoadsInvalidPaths =>
              /\ status' = "running"
              /\ settings'.root_paths = <<>>
              /\ db'.settings = db.settings ]_vars

\* The process runs on an empty message list read from a text that is no JSON.
C3_Witness ==
    /\ Handled("Start") /\ Running
    /\ conversation.messages = <<>>
    /\ db.conversation[1].messages = TextOops

StoredEqualsMemory ==
    /\ db.conversation = <<ConversationRow(conversation)>>
    /\ db.settings = <<SettingsRow(settings)>>

\* C4 as stated: after each GUI event is handled, the stored rows equal the
\* records in memory.
C4_PersistOnEveryEvent ==
    (Running /\ event.fault = "none"
        /\ event.op \in {"Send", "AddPath", "RemovePath", "SaveSettings", "Cancel",
                         "ToggleSettings"})
    => StoredEqualsMemory

\* C4 amended: the stored conversation row equals the conversation in memory
\* after every GUI event; the stored settings row equals the settings in
\* memory after Save Settings and after Cancel; after Add Another Path and
\* after Remove the stored settings row is still the one last saved, whatever
\* the settings in memory are.
C4_PersistOnSaveAndSend ==
    Running =>
        /\ db.conversation = <<ConversationRow(conversation)>>
        /\ (Handled("SaveSettings") \/ Handled("Cancel")) =>
              db.settings = <<SettingsRow(settings)>>
        /\ (Handled("AddPath") \/ Handled("RemovePath")) =>
              db.settings = <<SettingsRow(last_saved)>>

\* Save Settings has stored settings that differ from the defaults.
C4_Witness ==
    /\ Handled("SaveSettings") /\ Running
    /\ settings.root_paths = <<SpecialPath>>
    /\ settings.index_interval_minutes = I32_MIN
    /\ db.settings = <<SettingsRow(settings)>>

\* C5: started on an empty database, new creates both tables, inserts the
\* default rows and returns the default records; started on stored rows it
\* inserts nothing, leaves the rows as they are and returns the stored row;
\* a second run of new on the result changes neither the database nor the
\* records returned.
C5_Bootstrap ==
    [][ Handles("Start") =>
          /\ Running'
          /\ db'.tables = {"settings", "conversation"}
          /\ IF Len(db.conversation) = 0
             THEN /\ conversation' =
                        [id |-> 1, messages |-> <<Message(RoleSystem, WelcomeText)>>]
                  /\ db'.conversation = <<[id |-> 1, messages |-> DefaultMessagesText]>>
             ELSE /\ db'.conversation = db.conversation
                  /\ db.conversation = <<ConversationRow(conversation')>>
          /\ IF Len(db.settings) = 0
             THEN /\ settings' = [id |-> 1, root_paths |-> <<DefaultPath>>,
                                  index_interval_minutes |-> 60]
                  /\ db'.settings =
                        <<[id |-> 1, root_paths |-> DefaultPathsText,
                           index_interval_minutes |-> 60]>>
             ELSE /\ db'.settings = db.settings
                  /\ db.settings = <<SettingsRow(settings')>>
          /\ new(db', "none") =
                [ok |-> TRUE, db |-> db', conversation |-> conversation',
                 settings |-> settings'] ]_vars

\* The application restarted on rows that hold more than the defaults.
C5_Witness ==
    /\ Handled("Start") /\ Running
    /\ Len(conversation.messages) = 5
    /\ settings.root_paths = <<SpecialPath>>

\* C6: one Send click appends the user message holding the input text and
\* then the assistant message holding the stub reply to it, keeps the earlier
\* messages, clears current_input and writes the new list to the stored row.
C6_Send ==
    [][ Handles("Send") =>
          /\ conversation'.id = conversation.id
          /\ conversation'.messages =
                conversation.messages \o
                    << [role |-> RoleUser, content |-> current_input],
                       [role |-> RoleAssistant,
                        content |-> StubPrefix \o current_input \o <<"'">>] >>
          /\ current_input' = <<>>
          /\ Len(db'.conversation) = 1
          /\ from_str_messages(db'.conversation[1].messages) =
                [ok |-> TRUE, val |-> conversation'.messages,
                 next |-> Len(db'.conversation[1].messages) + 1] ]_vars

\* Send was clicked on the empty text after it was clicked on a text with
\* quotes.
C6_Witness ==
    /\ Handled("Send") /\ Running
    /\ Len(conversation.messages) = 5
    /\ conversation.messages[2].content = SpecialInput
    /\ conversation.messages[4].content = <<>>
    /\ conversation.messages[5].content = StubPrefix \o <<"'">>

\* The list in memory is the list the stored row decodes to.
C7_MemoryIsStored ==
    Running =>
        /\ Len(db.conversation) = 1
        /\ conversation.id = db.conversation[1].id
        /\ from_str_messages(db.conversation[1].messages) =
              [ok |-> TRUE, val |-> conversation.messages,
               next |-> Len(db.conversation[1].messages) + 1]

\* C7: the list in memory is the stored list whenever the application runs,
\* so the list a restart loads is the list held before it; from one event of
\* a running application to the next the list in memory only grows at its
\* end; and a step that ends or starts the process leaves a stored row as it
\* is, writing the row only where there was none.
C7_AppendOnly ==
    /\ []C7_MemoryIsStored
    /\ [][ /\ (Running /\ Running') =>
                 IsPrefix(conversation.messages, conversation'.messages)
           /\ ~(Running /\ Running') =>
                 (db'.conversation = db.conversation \/ Len(db.conversation) = 0) ]_vars

\* The application restarted and holds the messages of two earlier Sends.
C7_Witness ==
    /\ Handled("Start") /\ Running
    /\ Len(conversation.messages) = 5
    /\ conversation.messages[4].content = SpecialInput

\* C8: after Cancel the settings in memory are those last written to the
\* row (by Save Settings, or by bootstrap), the settings window is closed,
\* and both rows and the conversation in memory are unchanged.
C8_CancelDiscards ==
    [][ Handles("Cancel") =>
          /\ settings' = last_saved
          /\ db.settings = <<SettingsRow(settings')>>
          /\ settings_open' = FALSE
          /\ db' = db
          /\ conversation' = conversation
          /\ Running' ]_vars

\* Cancel brought back settings that a Save Settings had stored.
C8_Witness ==
    /\ Handled("Cancel") /\ Running
    /\ settings.root_paths = <<SpecialPath>>
    /\ settings.index_interval_minutes = I32_MIN

\* C9: only Save Settings (and the bootstrap insert) writes the settings row
\* and only Send (and the bootstrap insert) writes the conversation row; Add
\* Another Path, Remove, path and interval edits, Cancel and the Settings
\* toggle leave the database as it is; the toggle changes settings_open alone;
\* Send leaves the settings alone and Save Settings the conversation.
C9_Frames ==
    [][ /\ event'.op \in {"AddPath", "RemovePath", "EditPath", "IntervalLostFocus",
                          "Cancel", "ToggleSettings", "TypeInput", "Exit"}
              => db' = db
        /\ db'.settings # db.settings => event'.op \in {"SaveSettings", "Start"}
        /\ db'.conversation # db.conversation => event'.op \in {"Send", "Start"}
        /\ event'.op = "ToggleSettings" =>
              /\ settings_open' = ~settings_open
              /\ UNCHANGED <<status, db, conversation, current_input, settings>>
        /\ event'.op = "Send" => db'.settings = db.settings
        /\ Handles("Send") => settings' = settings /\ settings_open' = settings_open
        /\ event'.op = "SaveSettings" => db'.conversation = db.conversation
        /\ Handles("SaveSettings") =>
              conversation' = conversation /\ settings' = settings ]_vars

\* The settings window was closed with the toggle on edits that are not
\* stored.
C9_Witness ==
    /\ Handled("ToggleSettings") /\ Running
    /\ ~settings_open
    /\ settings.root_paths = <<SpecialPath>>
    /\ db.settings = <<SettingsRow(DefaultSettings)>>

\* The interval texts that are the decimal text of an i32, with their value.
AcceptedIntervals ==
    { << <<"6", "0">>, 60 >>,
      << <<"+", "0", "0", "6", "0">>, 60 >>,
      << <<"-", "2", "1", "4", "7", "4", "8", "3", "6", "4", "8">>, I32_MIN >> }
RejectedIntervals == IntervalTexts \ { a[1] : a \in AcceptedIntervals }

\* C10: when the interval field loses focus, index_interval_minutes becomes
\* the value of the text if the text is the decimal text of an i32, and is
\* kept otherwise; the process goes on running and nothing else changes, the
\* database included.
C10_IntervalEdit ==
    [][ /\ \A a \in AcceptedIntervals :
              IntervalLostFocus(a[1]) => settings'.index_interval_minutes = a[2]
        /\ \A s \in RejectedIntervals :
              IntervalLostFocus(s) => settings' = settings
        /\ event'.op = "IntervalLostFocus" =>
              /\ Running'
              /\ db' = db
              /\ settings'.id = settings.id
              /\ settings'.root_paths = settings.root_paths
              /\ UNCHANGED <<conversation, current_input, settings_open>> ]_vars

\* The interval was set to the least i32 and the stored row still holds 60.
C10_Witness ==
    /\ Handled("IntervalLostFocus") /\ Running
    /\ settings.index_interval_minutes = I32_MIN
    /\ db.settings[1].index_interval_minutes = 60

====
